---- MODULE Spec2Model ----
(***************************************************************************)
(* A model of cmd/templ/generatecmd/proxy/proxy.go: the live-reload proxy  *)
(* of templ.  Three parts are modelled:                                    *)
(*   - the response rewriter (modifyResponse and its two modifiers),       *)
(*   - the retrying transport (roundTripper.RoundTrip),                    *)
(*   - the handler's routing (Handler.ServeHTTP, Handler.SendSSE).         *)
(* Strings and bodies are sequences of bytes (0..255).                     *)
(***************************************************************************)
EXTENDS Integers, Sequences, FiniteSets, TLC

(***************************************************************************)
(* Bytes and strings.                                                      *)
(***************************************************************************)

\* The printable ASCII characters, in code order starting at 32 (the grave
\* accent, 96, is spelled out: it opens a comment's quotation otherwise).
Chars ==
  << " ", "!", "\"", "#", "$", "%", "&", "'", "(", ")", "*", "+", ",", "-",
     ".", "/", "0", "1", "2", "3", "4", "5", "6", "7", "8", "9", ":", ";",
     "<", "=", ">", "?", "@", "A", "B", "C", "D", "E", "F", "G", "H", "I",
     "J", "K", "L", "M", "N", "O", "P", "Q", "R", "S", "T", "U", "V", "W",
     "X", "Y", "Z", "[", "\\", "]", "^", "_", "grave", "a", "b", "c", "d", "e",
     "f", "g", "h", "i", "j", "k", "l", "m", "n", "o", "p", "q", "r", "s",
     "t", "u", "v", "w", "x", "y", "z", "{", "|", "}", "~" >>

\* The byte of a character.
Ord(c) == 31 + (CHOOSE i \in 1..Len(Chars) : Chars[i] = c)

\* The byte string of a tuple of characters.
Str(t) == [i \in 1..Len(t) |-> Ord(t[i])]

Min(a, b) == IF a < b THEN a ELSE b

\* s[from..] (1-indexed), the empty string when from is past the end.
Tail_(s, from) == SubSeq(s, from, Len(s))

\* strings.HasPrefix
HasPrefix(s, prefix) ==
  /\ Len(s) >= Len(prefix)
  /\ SubSeq(s, 1, Len(prefix)) = prefix

\* strings.Index restricted to s[from..]: the least position >= from at which
\* old occurs in s, or 0 when there is none.
IndexFrom(s, old, from) ==
  LET hits == {i \in from..(Len(s) - Len(old) + 1) :
                 SubSeq(s, i, i + Len(old) - 1) = old}
  IN  IF hits = {} THEN 0 ELSE CHOOSE i \in hits : \A j \in hits : i <= j

\* strings.Replace(s, old, new, -1) for a non-empty old: the non-overlapping
\* occurrences of old, found left to right, are each replaced by new.
RECURSIVE ReplaceFrom(_, _, _, _)
ReplaceFrom(s, old, new, from) ==
  LET j == IndexFrom(s, old, from)
  IN  IF j = 0
      THEN Tail_(s, from)
      ELSE SubSeq(s, from, j - 1) \o new \o ReplaceFrom(s, old, new, j + Len(old))

ReplaceAll(s, old, new) == ReplaceFrom(s, old, new, 1)

\* strconv.Itoa of a natural number: its decimal digits.
RECURSIVE Itoa(_)
Itoa(n) ==
  IF n < 10 THEN << 48 + n >> ELSE Itoa(n \div 10) \o << 48 + (n % 10) >>

\* strconv.Atoi of a string of decimal digits.
RECURSIVE Atoi(_)
Atoi(s) ==
  IF Len(s) = 0 THEN 0
  ELSE 10 * Atoi(SubSeq(s, 1, Len(s) - 1)) + (s[Len(s)] - 48)

\* The number of positions at which old occurs in s.
Count(s, old) ==
  Cardinality({i \in 1..(Len(s) - Len(old) + 1) :
                 SubSeq(s, i, i + Len(old) - 1) = old})

(***************************************************************************)
(* http.Header: a map from canonical header names to values.  Header.Get   *)
(* answers the empty string for a name that is not set.                    *)
(***************************************************************************)

Get(h, k) == IF k \in DOMAIN h THEN h[k] ELSE << >>

Set(h, k, v) == [x \in DOMAIN h \cup {k} |-> IF x = k THEN v ELSE h[x]]

(***************************************************************************)
(* Streams (io.Reader): the bytes, how many of them have been read, and    *)
(* whether the stream ends in a read error instead of io.EOF.              *)
(***************************************************************************)

NewReader(data) == [data |-> data, pos |-> 0, broken |-> FALSE]

Remaining(rd) == Tail_(rd.data, rd.pos + 1)

\* The stream after n more bytes have been read from it.
Advance(rd, n) == [rd EXCEPT !.pos = Min(Len(rd.data), rd.pos + n)]

\* io.ReadAll: everything up to the end of the stream; the stream is drained
\* whether it ends in io.EOF or in an error.
ReadAll(rd) ==
  [ data |-> Remaining(rd),
    err  |-> IF rd.broken THEN "read error" ELSE "",
    rd   |-> [rd EXCEPT !.pos = Len(rd.data)] ]

(***************************************************************************)
(* compress/gzip.  A member is the 10-byte header, the deflate stream      *)
(* (here one final stored block), and the trailer: checksum and size of    *)
(* the uncompressed data, 4 bytes each, little-endian.  The CRC-32 of the  *)
(* library is abstracted by a position-weighted sum.                       *)
(***************************************************************************)

LE16(n) == << n % 256, (n \div 256) % 256 >>

LE32(n) == << n % 256, (n \div 256) % 256, (n \div 65536) % 256, (n \div 16777216) % 256 >>

FromLE16(s, i) == s[i] + 256 * s[i + 1]

RECURSIVE crcFrom(_, _)
crcFrom(b, i) == IF i > Len(b) THEN 0 ELSE (i * b[i] + crcFrom(b, i + 1)) % 65521

crc(b) == crcFrom(b, 1)

\* ID1, ID2, CM = deflate, FLG, MTIME (4 bytes), XFL, OS = unknown
gzipHeader == << 31, 139, 8, 0, 0, 0, 0, 0, 0, 255 >>

deflateStored(b) == << 1 >> \o LE16(Len(b)) \o LE16(65535 - Len(b)) \o b

\* gzip.NewWriter(&buf); Write(b); Close(): the bytes left in buf.
gzipCompress(b) == gzipHeader \o deflateStored(b) \o LE32(crc(b)) \o LE32(Len(b))

\* gzip.NewReader on a stream with s left to read: it reads and checks the
\* member header.  need: the bytes it has to read to come to its answer.
gzipNewReader(s, broken) ==
  IF Len(s) < Len(gzipHeader)
  THEN [err  |-> IF broken THEN "read error"
                 ELSE IF Len(s) = 0 THEN "EOF" ELSE "unexpected EOF",
        need |-> Len(s)]
  ELSE [err  |-> IF SubSeq(s, 1, 3) = SubSeq(gzipHeader, 1, 3)
                 THEN "" ELSE "gzip: invalid header",
        need |-> Len(gzipHeader)]

\* io.ReadAll on the gzip.Reader of a stream whose header was accepted: the
\* uncompressed data, or the error that ends the decompression.
gzipReadAll(s, broken) ==
  LET eof == IF broken THEN "read error" ELSE "unexpected EOF"
      h   == Len(gzipHeader)
  IN  IF Len(s) < h + 5
      THEN [err |-> eof, data |-> << >>, need |-> Len(s)]
      ELSE IF s[h + 1] # 1 \/ FromLE16(s, h + 4) # 65535 - FromLE16(s, h + 2)
      THEN [err |-> "flate: corrupt input", data |-> << >>, need |-> h + 5]
      ELSE LET n   == FromLE16(s, h + 2)
               end == h + 5 + n + 8
               out == SubSeq(s, h + 6, h + 5 + n)
           IN  IF Len(s) < end
               THEN [err |-> eof, data |-> << >>, need |-> Len(s)]
               ELSE IF SubSeq(s, h + 6 + n, end) # LE32(crc(out)) \o LE32(n)
               THEN [err |-> "gzip: invalid checksum", data |-> out, need |-> end]
               ELSE IF Len(s) > end
               THEN [err |-> "gzip: invalid header", data |-> out,
                     need |-> Min(Len(s), end + h)]
               ELSE IF broken
               THEN [err |-> "read error", data |-> out, need |-> Len(s)]
               ELSE [err |-> "", data |-> out, need |-> Len(s)]

\* What the bufio.Reader inside the gzip.Reader has taken from the stream
\* when the reader gave its answer after need bytes: exactly those, or, with
\* ahead, everything the stream had.
Consumed(rd, need, ahead) ==
  IF ahead THEN [rd EXCEPT !.pos = Len(rd.data)] ELSE Advance(rd, need)

(***************************************************************************)
(* The response rewriter.  An http.Response is                             *)
(*   [StatusCode, Header, Body (a stream), ContentLength].                 *)
(* Each function answers [r |-> the response afterwards, err |-> error].   *)
(***************************************************************************)

\* const scriptTag
scriptTag ==
  Str(<< "<", "s", "c", "r", "i", "p", "t", " ", "s", "r", "c", "=", "\"",
         "/", "_", "t", "e", "m", "p", "l", "/", "r", "e", "l", "o", "a", "d",
         "/", "s", "c", "r", "i", "p", "t", ".", "j", "s", "\"", ">",
         "<", "/", "s", "c", "r", "i", "p", "t", ">" >>)

closeBody == Str(<< "<", "/", "b", "o", "d", "y", ">" >>)

strTrue == Str(<< "t", "r", "u", "e" >>)

strGzip == Str(<< "g", "z", "i", "p" >>)

strTextHtml == Str(<< "t", "e", "x", "t", "/", "h", "t", "m", "l" >>)

\* The insertion, were it to stop after the first closing tag.
insertScriptTagIntoBody_first(body) ==
  LET j == IndexFrom(body, closeBody, 1)
  IN  IF j = 0 THEN body
      ELSE SubSeq(body, 1, j - 1) \o scriptTag \o Tail_(body, j)

insertScriptTagIntoBody(body) == ReplaceAll(body, closeBody, scriptTag \o closeBody)

\* The gzip modifier, were it to leave out the recompression.
updateGzipResponse_plain(r, ahead) ==
  LET s  == Remaining(r.Body)
      hd == gzipNewReader(s, r.Body.broken)
      rd == gzipReadAll(s, r.Body.broken)
  IN  IF hd.err # ""
      THEN [r |-> [r EXCEPT !.Body = Consumed(r.Body, hd.need, ahead)], err |-> hd.err]
      ELSE IF rd.err # ""
      THEN [r |-> [r EXCEPT !.Body = Consumed(r.Body, rd.need, ahead)], err |-> rd.err]
      ELSE LET buf == insertScriptTagIntoBody(rd.data)
           IN  [r   |-> [r EXCEPT !.Body = NewReader(buf),
                                  !.ContentLength = Len(buf),
                                  !.Header = Set(r.Header, "Content-Length", Itoa(Len(buf)))],
                err |-> ""]

\* The gzip modifier, were it to answer with the text uncompressed and take
\* the Content-Encoding away.
updateGzipResponse_identity(r, ahead) ==
  LET s  == Remaining(r.Body)
      hd == gzipNewReader(s, r.Body.broken)
      rd == gzipReadAll(s, r.Body.broken)
  IN  IF hd.err # ""
      THEN [r |-> [r EXCEPT !.Body = Consumed(r.Body, hd.need, ahead)], err |-> hd.err]
      ELSE IF rd.err # ""
      THEN [r |-> [r EXCEPT !.Body = Consumed(r.Body, rd.need, ahead)], err |-> rd.err]
      ELSE LET buf == insertScriptTagIntoBody(rd.data)
               h   == Set(r.Header, "Content-Length", Itoa(Len(buf)))
           IN  [r   |-> [r EXCEPT !.Body = NewReader(buf),
                                  !.ContentLength = Len(buf),
                                  !.Header = [k \in DOMAIN h \ {"Content-Encoding"} |-> h[k]]],
                err |-> ""]

\* A write to a bytes.Buffer does not fail, so the error returns after
\* gzw.Write and gzw.Close are never taken.
updateGzipResponse(r, ahead) ==
  LET s  == Remaining(r.Body)
      hd == gzipNewReader(s, r.Body.broken)
      rd == gzipReadAll(s, r.Body.broken)
  IN  IF hd.err # ""
      THEN [r |-> [r EXCEPT !.Body = Consumed(r.Body, hd.need, ahead)], err |-> hd.err]
      ELSE IF rd.err # ""
      THEN [r |-> [r EXCEPT !.Body = Consumed(r.Body, rd.need, ahead)], err |-> rd.err]
      ELSE LET buf == gzipCompress(insertScriptTagIntoBody(rd.data))
           IN  [r   |-> [r EXCEPT !.Body = NewReader(buf),
                                  !.ContentLength = Len(buf),
                                  !.Header = Set(r.Header, "Content-Length", Itoa(Len(buf)))],
                err |-> ""]

updatePlainResponse(r) ==
  LET rd == ReadAll(r.Body)
  IN  IF rd.err # ""
      THEN [r |-> [r EXCEPT !.Body = rd.rd], err |-> rd.err]
      ELSE LET updated == insertScriptTagIntoBody(rd.data)
           IN  [r   |-> [r EXCEPT !.Body = NewReader(updated),
                                  !.ContentLength = Len(updated),
                                  !.Header = Set(r.Header, "Content-Length", Itoa(Len(updated)))],
                err |-> ""]

\* modifyResponse, were it not to look at the Content-Type.
modifyResponse_anyType(r, ahead) ==
  IF Get(r.Header, "Templ-Skip-Modify") = strTrue
  THEN [r |-> r, err |-> ""]
  ELSE IF Get(r.Header, "Content-Encoding") = strGzip
  THEN updateGzipResponse(r, ahead)
  ELSE updatePlainResponse(r)

modifyResponse(r, ahead) ==
  IF Get(r.Header, "Templ-Skip-Modify") = strTrue
  THEN [r |-> r, err |-> ""]
  ELSE IF ~HasPrefix(Get(r.Header, "Content-Type"), strTextHtml)
  THEN [r |-> r, err |-> ""]
  ELSE IF Get(r.Header, "Content-Encoding") = strGzip
  THEN updateGzipResponse(r, ahead)
  ELSE updatePlainResponse(r)

(***************************************************************************)
(* The upstream's responses.                                               *)
(***************************************************************************)

\* The most pieces an upstream body is put together from.
MaxParts == 3

\* The pieces: the closing tag, two fragments of it that join to one, and
\* other text.
Parts ==
  { closeBody,
    Str(<< "<", "/", "b", "o" >>),
    Str(<< "d", "y", ">" >>),
    Str(<< "a" >>) }

RECURSIVE Pieces(_)
Pieces(n) ==
  IF n = 0 THEN { << >> }
  ELSE Pieces(n - 1) \cup { b \o p : b \in Pieces(n - 1), p \in Parts }

\* The texts of at most n pieces, and those of them that end in a closing
\* tag which has the script markup before it already.
Bodies(n) ==
  Pieces(n) \cup { b \o scriptTag \o closeBody : b \in Pieces(n - 1) }

\* Content-Type values; the empty string stands for a header not sent.
ContentTypes ==
  { << >>,
    strTextHtml,
    strTextHtml \o Str(<< ";", " ", "c", "h", "a", "r", "s", "e", "t", "=", "u", "t", "f", "-", "8" >>),
    Str(<< "t", "e", "x", "t", "/", "h", "t", "m" >>),
    Str(<< "t", "e", "x", "t", "/", "p", "l", "a", "i", "n" >>) }

ContentEncodings == { << >>, strGzip, Str(<< "b", "r" >>) }

SkipValues == { << >>, strTrue, Str(<< "f", "a", "l", "s", "e" >>) }

\* What an upstream that declares the encoding enc may send for the text b:
\* for gzip the compressed text, the same cut short, the same with a wrong
\* checksum, and the text not compressed at all.
Encoded(enc, b) ==
  IF enc = strGzip
  THEN LET z == gzipCompress(b)
       IN  { z,
             SubSeq(z, 1, Len(z) - 1),
             [z EXCEPT ![Len(z) - 4] = (z[Len(z) - 4] + 1) % 256],
             b }
  ELSE { b }

\* h with k set to v, unless v is empty.
WithHeader(h, k, v) == IF v = << >> THEN h ELSE Set(h, k, v)

UpstreamResponse(status, ct, enc, skip, data, broken) ==
  [ StatusCode    |-> status,
    Header        |-> WithHeader(WithHeader(WithHeader(
                        [k \in {"Content-Length", "Cache-Control"} |->
                           IF k = "Content-Length" THEN Itoa(Len(data))
                           ELSE Str(<< "n", "o", "-", "c", "a", "c", "h", "e" >>)],
                        "Content-Type", ct), "Content-Encoding", enc),
                        "Templ-Skip-Modify", skip),
    Body          |-> [data |-> data, pos |-> 0, broken |-> broken],
    ContentLength |-> Len(data) ]

Responses(bodies) ==
  { UpstreamResponse(200, ct, enc, skip, data, broken) :
      ct \in ContentTypes, enc \in ContentEncodings, skip \in SkipValues,
      data \in UNION { Encoded(enc2, b) : enc2 \in ContentEncodings, b \in bodies },
      broken \in BOOLEAN }

\* r as an upstream sends it with Transfer-Encoding chunked: no
\* Content-Length header, and the length field of http.Response is -1.
Chunked(r) ==
  [r EXCEPT !.Header = [k \in DOMAIN r.Header \ {"Content-Length"} |-> r.Header[k]],
            !.ContentLength = -1]

\* Responses of other shapes: another status code, no declared length.
OtherResponses(bodies) ==
  { [x EXCEPT !.StatusCode = 404] : x \in Responses(bodies) }
    \cup { Chunked(x) : x \in Responses(bodies) }

(***************************************************************************)
(* The retrying transport.  An http.Request is [Method, URL, Header, Body]; *)
(* its Body is nil, http.NoBody or a stream.  A clone's Body is the same   *)
(* stream as the original's (kind "shared": Request.Clone copies the       *)
(* reference) until it is given a reader of its own.                       *)
(***************************************************************************)

\* roundTripper.maxRetries, as New sets it
maxRetries == 10

\* roundTripper.initialDelay, as New sets it, in milliseconds
initialDelay == 100

\* roundTripper.backoffExponent, as New sets it, is backoffNum / backoffDen
backoffNum == 3

backoffDen == 2

\* a nil *http.Response, a nil *http.Request
noResponse == [StatusCode |-> 0]

noRequest == [Method |-> ""]

nilBody == [kind |-> "nil"]

NoBody == [kind |-> "NoBody"]

StreamBody(data, broken) ==
  [kind |-> "stream", data |-> data, pos |-> 0, broken |-> broken, closed |-> FALSE]

\* a nil []byte
nilBytes == [isNil |-> TRUE, data |-> << >>]

RECURSIVE Pow(_, _)
Pow(b, k) == IF k = 0 THEN 1 ELSE b * Pow(b, k - 1)

\* time.Duration(math.Pow(backoffExponent, float64(retries))): the power is
\* exact in a float64 and the conversion to the integer type drops its
\* fraction.
backoffFactor(retries) == Pow(backoffNum, retries) \div Pow(backoffDen, retries)

\* The argument of time.Sleep, were the factor rounded up to a whole number.
sleepDelay_roundedUp(retries) ==
  initialDelay
    * ((Pow(backoffNum, retries) + Pow(backoffDen, retries) - 1) \div Pow(backoffDen, retries))

\* The argument of time.Sleep after the failed attempt retries, in ms.
sleepDelay(retries) == initialDelay * backoffFactor(retries)

\* The buffering, were a failed read treated like a complete one.
bufferBody_ignoresError(r) ==
  IF r.Body.kind = "stream"
  THEN LET rd == ReadAll(r.Body)
       IN  [r         |-> [r EXCEPT !.Body = [rd.rd EXCEPT !.closed = TRUE]],
            bodyBytes |-> [isNil |-> FALSE, data |-> rd.data],
            err       |-> ""]
  ELSE [r |-> r, bodyBytes |-> nilBytes, err |-> ""]

\* Lines 158-166: the body is buffered.  Answers the request with its stream
\* drained, the buffer, and the error of the read.
bufferBody(r) ==
  IF r.Body.kind = "stream"
  THEN LET rd == ReadAll(r.Body)
       IN  IF rd.err # ""
           THEN [r |-> [r EXCEPT !.Body = rd.rd], bodyBytes |-> nilBytes, err |-> rd.err]
           ELSE [r         |-> [r EXCEPT !.Body = [rd.rd EXCEPT !.closed = TRUE]],
                 bodyBytes |-> [isNil |-> FALSE, data |-> rd.data],
                 err       |-> ""]
  ELSE [r |-> r, bodyBytes |-> nilBytes, err |-> ""]

\* The request of one attempt, were the clone left with the original's body.
cloneRequest_shared(r, bodyBytes) ==
  [r EXCEPT !.Body = IF r.Body.kind = "stream" THEN [kind |-> "shared"] ELSE r.Body]

\* Lines 173-176: the request of one attempt.
cloneRequest(r, bodyBytes) ==
  LET req == [r EXCEPT !.Body = IF r.Body.kind = "stream" THEN [kind |-> "shared"]
                                 ELSE r.Body]
  IN  IF ~bodyBytes.isNil
      THEN [req EXCEPT !.Body = [kind |-> "bytes", data |-> bodyBytes.data, pos |-> 0]]
      ELSE req

\* What the underlying transport can read from the body of req, a clone of r.
Readable(req, r) ==
  CASE req.Body.kind = "bytes"  -> Remaining(req.Body)
    [] req.Body.kind = "shared" -> Remaining(r.Body)
    [] OTHER                    -> << >>

setShouldSkipResponseModificationHeader(r, resp) ==
  IF Get(r.Header, "Hx-Request") # strTrue
  THEN resp
  ELSE [resp EXCEPT !.Header = Set(resp.Header, "Templ-Skip-Modify", strTrue)]

\* The loop's test, off by one.
loopContinues_offByOne(retries) == retries <= maxRetries

\* Line 171: the loop's test.
loopContinues(retries) == retries < maxRetries

\* The loop, were it to treat a 5xx response as a failed attempt.
attemptOutcome_retry5xx(r, answer) ==
  IF answer = noResponse \/ answer.StatusCode >= 500
  THEN [pc |-> "sleep", resp |-> noResponse, err |-> "transport error"]
  ELSE [pc   |-> "returned",
        resp |-> setShouldSkipResponseModificationHeader(r, answer),
        err  |-> ""]

\* Lines 179-187: what the loop does with the underlying transport's answer
\* (noResponse: it returned an error): sleep and go on, or mark the response
\* and return it.
attemptOutcome(r, answer) ==
  IF answer = noResponse
  THEN [pc |-> "sleep", resp |-> noResponse, err |-> "transport error"]
  ELSE [pc   |-> "returned",
        resp |-> setShouldSkipResponseModificationHeader(r, answer),
        err  |-> ""]

(***************************************************************************)
(* State.                                                                  *)
(***************************************************************************)

VARIABLES
  rtpc,      \* RoundTrip: "idle", "start", "loop" (at the loop's test),
             \* "sleep" (an attempt failed), "returned"
  r,         \* the request RoundTrip was called with
  bodyBytes, \* the buffered body
  retries,   \* the loop counter
  req,       \* the clone of the current attempt, as the attempt left it
  resp,      \* the response RoundTrip returns (noResponse: nil)
  err,       \* the error RoundTrip returns ("": nil)
  attempts,  \* the calls of http.DefaultTransport.RoundTrip so far: what each
             \* was given and what it answered
  prevRead,  \* how much of its body the attempt before the last one read
  slept,     \* the arguments of time.Sleep so far, in ms
  origReads, \* how many times the stream of r.Body has been read from
  mpc,       \* the rewriter: "idle", "modify" (a response is to be passed to
             \* modifyResponse), "done" (it has returned)
  upstream,  \* the response as it was passed to modifyResponse
  res,       \* that response, as modifyResponse left it
  mrErr,     \* the error modifyResponse returned
  hpc,       \* Handler.ServeHTTP: "idle", "proxy" (the request is with the
             \* reverse proxy), "done" (it has returned)
  in,        \* the request ServeHTTP was called with
  w,         \* what has been written to its http.ResponseWriter
  published, \* the events given to the broadcaster's Send, in order
  streams,   \* the event streams the broadcaster has been asked to serve
  subs,      \* the broadcaster's registered subscribers, by the number of
             \* their stream: what each has yet to be sent and has been sent
  calls      \* the calls of RoundTrip that run side by side, one frame each

rtVars == << rtpc, r, bodyBytes, retries, req, resp, err, attempts, prevRead, slept,
            origReads >>

mrVars == << mpc, upstream, res, mrErr >>

hVars == << hpc, in, w, published, streams >>

vars == << rtVars, mrVars, hVars, subs, calls >>

rtIdle ==
  /\ rtpc = "idle"
  /\ r = noRequest
  /\ bodyBytes = nilBytes
  /\ retries = 0
  /\ req = noRequest
  /\ resp = noResponse
  /\ err = ""
  /\ attempts = << >>
  /\ prevRead = 0
  /\ slept = << >>
  /\ origReads = 0

mrIdle ==
  /\ mpc = "idle"
  /\ upstream = noResponse
  /\ res = noResponse
  /\ mrErr = ""

\* A ResponseWriter nothing has been written to.
noHeader == [k \in {} |-> << >>]

unwritten == [Code |-> 0, Header |-> noHeader, Body |-> << >>]

hIdle ==
  /\ hpc = "idle"
  /\ in = noRequest
  /\ w = unwritten
  /\ published = << >>
  /\ streams = 0
  /\ subs = << >>
  /\ calls = << >>

(***************************************************************************)
(* RoundTrip, step by step.                                                *)
(***************************************************************************)

\* The responses the underlying transport may return.
TransportResponses ==
  { UpstreamResponse(status, t[1], t[2], skip, t[3], FALSE) :
      status \in {200, 404, 502},
      skip \in {<< >>, strTrue},
      t \in { << strTextHtml, << >>, Str(<< "a" >>) \o closeBody >>,
              << strTextHtml, strGzip, gzipCompress(closeBody) >>,
              << Str(<< "t", "e", "x", "t", "/", "p", "l", "a", "i", "n" >>), << >>, closeBody >> } }

\* Lines 158-166.
RTBuffer ==
  /\ rtpc = "start"
  /\ LET b == bufferBody(r)
     IN  /\ r' = b.r
         /\ bodyBytes' = b.bodyBytes
         /\ err' = b.err
         /\ rtpc' = IF b.err # "" THEN "returned" ELSE "loop"
  /\ origReads' = origReads + (IF r.Body.kind = "stream" THEN 1 ELSE 0)
  /\ UNCHANGED << retries, req, resp, attempts, prevRead, slept, mrVars, hVars, subs, calls >>

\* Lines 171-187: one attempt.  The underlying transport reads some of the
\* clone's body and answers with an error (noResponse) or with a response.
RTAttempt ==
  /\ rtpc = "loop"
  /\ loopContinues(retries)
  /\ LET clone == cloneRequest(r, bodyBytes)
         body  == Readable(clone, r)
     IN  /\ \E n \in 0..Len(body) :
              /\ req' = IF clone.Body.kind = "bytes"
                        THEN [clone EXCEPT !.Body = Advance(clone.Body, n)]
                        ELSE clone
              /\ r' = IF clone.Body.kind = "shared"
                      THEN [r EXCEPT !.Body = Advance(r.Body, n)]
                      ELSE r
         /\ origReads' = origReads + (IF clone.Body.kind = "shared" THEN 1 ELSE 0)
         /\ prevRead' = IF req # noRequest /\ req.Body.kind = "bytes" THEN req.Body.pos ELSE 0
         /\ \E answer \in {noResponse} \cup TransportResponses :
              LET o == attemptOutcome(r, answer)
              IN  /\ attempts' = Append(attempts,
                                   [ n       |-> retries,
                                     Method  |-> clone.Method,
                                     URL     |-> clone.URL,
                                     Header  |-> clone.Header,
                                     HasBody |-> clone.Body.kind \notin {"nil", "NoBody"},
                                     Body    |-> body,
                                     answer  |-> answer ])
                  /\ resp' = o.resp
                  /\ err' = o.err
                  /\ rtpc' = o.pc
  /\ UNCHANGED << bodyBytes, retries, slept, mrVars, hVars, subs, calls >>

\* Lines 181-182: the sleep after a failed attempt, and the loop's increment.
RTSleep ==
  /\ rtpc = "sleep"
  /\ slept' = Append(slept, sleepDelay(retries))
  /\ retries' = retries + 1
  /\ rtpc' = "loop"
  /\ UNCHANGED << r, bodyBytes, req, resp, err, attempts, prevRead, origReads, mrVars,
                  hVars, subs, calls >>

\* Line 190: the loop ran out.
RTExhausted ==
  /\ rtpc = "loop"
  /\ ~loopContinues(retries)
  /\ resp' = noResponse
  /\ err' = "max retries reached"
  /\ rtpc' = "returned"
  /\ UNCHANGED << r, bodyBytes, retries, req, attempts, prevRead, slept, origReads,
                  mrVars, hVars, subs, calls >>

RoundTrip == RTBuffer \/ RTAttempt \/ RTSleep \/ RTExhausted

\* The longest body of a request to the transport.
MaxReqBody == 2

RECURSIVE Strings(_, _)
Strings(alphabet, n) ==
  IF n = 0 THEN { << >> }
  ELSE Strings(alphabet, n - 1)
         \cup { Append(t, c) : t \in Strings(alphabet, n - 1), c \in alphabet }

\* Values of the HX-Request header; the empty string: not sent.
HxValues == { << >>, strTrue, Str(<< "f", "a", "l", "s", "e" >>) }

RequestBodies ==
  { nilBody, NoBody }
    \cup { StreamBody(data, broken) :
             data \in Strings({97, 98}, MaxReqBody), broken \in BOOLEAN }

Request(method, host, path, hx, body) ==
  [ Method |-> method,
    URL    |-> [Host |-> host, Path |-> path],
    Header |-> WithHeader([k \in {"Accept"} |-> Str(<< "*", "/", "*" >>)], "Hx-Request", hx),
    Body   |-> body ]

InitRT ==
  /\ mrIdle
  /\ hIdle
  /\ rtpc = "start"
  /\ r \in { Request(m, "target", "/page", hx, body) :
               m \in {"GET", "POST"}, hx \in HxValues, body \in RequestBodies }
  /\ bodyBytes = nilBytes
  /\ retries = 0
  /\ req = noRequest
  /\ resp = noResponse
  /\ err = ""
  /\ attempts = << >>
  /\ prevRead = 0
  /\ slept = << >>
  /\ origReads = 0

NextRT == RoundTrip

SpecRT == InitRT /\ [][NextRT]_vars

\* RoundTrip where every call it makes returns: the underlying transport
\* answers each attempt, time.Sleep ends, and the goroutine goes on running.
SpecRTFair == InitRT /\ [][NextRT]_vars /\ WF_vars(NextRT)

(***************************************************************************)
(* Calls of RoundTrip side by side.  The roundTripper is shared and is      *)
(* only read; everything a call writes is a local of its own frame:         *)
(* [pc, r, bodyBytes, retries, resp, err, slept], and answers, the answers  *)
(* the underlying transport gave to its attempts.                           *)
(***************************************************************************)

\* The calls that run side by side.
MaxCalls == 2

\* Lines 156-191, one step of the call whose frame is c; answer is what the
\* underlying transport answers if the step is an attempt.
roundTripStep(c, answer) ==
  CASE c.pc = "start" ->
         LET b == bufferBody(c.r)
         IN  [c EXCEPT !.r = b.r,
                       !.bodyBytes = b.bodyBytes,
                       !.err = b.err,
                       !.pc = IF b.err # "" THEN "returned" ELSE "loop"]
    [] c.pc = "loop" /\ loopContinues(c.retries) ->
         LET o == attemptOutcome(c.r, answer)
         IN  [c EXCEPT !.answers = Append(@, answer),
                       !.resp = o.resp,
                       !.err = o.err,
                       !.pc = o.pc]
    [] c.pc = "loop" /\ ~loopContinues(c.retries) ->
         [c EXCEPT !.resp = noResponse, !.err = "max retries reached", !.pc = "returned"]
    [] c.pc = "sleep" ->
         [c EXCEPT !.slept = Append(@, sleepDelay(c.retries)),
                   !.retries = @ + 1,
                   !.pc = "loop"]
    [] OTHER -> c

\* A step of call i, were the loop counter a field of the roundTripper.
callStep_sharedCounter(cs, i, answer) ==
  LET n == roundTripStep(cs[i], answer)
  IN  [j \in DOMAIN cs |-> IF j = i THEN n ELSE [cs[j] EXCEPT !.retries = n.retries]]

\* A step of call i: it reads and writes its own frame.
callStep(cs, i, answer) == [cs EXCEPT ![i] = roundTripStep(@, answer)]

\* The answers of the underlying transport to the calls that run side by side.
ConcurrentAnswers ==
  { noResponse,
    UpstreamResponse(200, strTextHtml, << >>, << >>, closeBody, FALSE),
    UpstreamResponse(502, << >>, << >>, << >>, << >>, FALSE) }

\* Their requests.
ConcurrentRequests ==
  { Request("GET", "target", "/page", << >>, NoBody),
    Request("POST", "target", "/page", strTrue, StreamBody(<< 97, 98 >>, FALSE)),
    Request("POST", "target", "/form", << >>, StreamBody(<< 97 >>, TRUE)) }

newFrame(request) ==
  [ pc        |-> "start",
    r         |-> request,
    bodyBytes |-> nilBytes,
    retries   |-> 0,
    resp      |-> noResponse,
    err       |-> "",
    answers   |-> << >>,
    slept     |-> << >> ]

\* Call i takes a step.
CallStep(i) ==
  /\ calls[i].pc # "returned"
  /\ \E answer \in ConcurrentAnswers : calls' = callStep(calls, i, answer)
  /\ UNCHANGED << rtVars, mrVars, hVars, subs >>

InitRT2 ==
  /\ rtIdle
  /\ mrIdle
  /\ hpc = "idle"
  /\ in = noRequest
  /\ w = unwritten
  /\ published = << >>
  /\ streams = 0
  /\ subs = << >>
  /\ calls \in [1..MaxCalls -> {newFrame(q) : q \in ConcurrentRequests}]

NextRT2 == \E i \in 1..MaxCalls : CallStep(i)

SpecRT2 == InitRT2 /\ [][NextRT2]_vars

(***************************************************************************)
(* The rewriter, on its own.                                               *)
(***************************************************************************)

\* ReverseProxy passes the transport's response to ModifyResponse.
ModifyResponse ==
  /\ mpc = "modify"
  /\ \E ahead \in BOOLEAN :
       LET o == modifyResponse(res, ahead)
       IN  /\ res' = o.r
           /\ mrErr' = o.err
  /\ mpc' = "done"
  /\ UNCHANGED << upstream, rtVars, hVars, subs, calls >>

InitMR ==
  /\ rtIdle
  /\ hIdle
  /\ mpc = "modify"
  /\ upstream \in Responses(Bodies(MaxParts)) \cup OtherResponses(Bodies(1))
  /\ res = upstream
  /\ mrErr = ""

NextMR == ModifyResponse

SpecMR == InitMR /\ [][NextMR]_vars

(***************************************************************************)
(* The handler.  The broadcaster (package sse) is seen through its two     *)
(* entry points: Send publishes one event, ServeHTTP serves one more       *)
(* event stream.                                                           *)
(***************************************************************************)

\* The most events published, and the most streams opened, in one run.
MaxEvents == 2

MaxStreams == 2

scriptPath == "/_templ/reload/script.js"

eventsPath == "/_templ/reload/events"

\* The embedded script.js.
script == Str(<< "r", "e", "l", "o", "a", "d", "(", ")" >>)

\* sse.Handler.Send
sseSend(events, eventType, data) == Append(events, [type |-> eventType, data |-> data])

\* sse.Handler.ServeHTTP: one more stream is open.
sseServeHTTP(n) == n + 1

\* http.Error(w, error, code)
httpError(error, code) ==
  [ Code   |-> code,
    Header |-> [k \in {"Content-Type", "X-Content-Type-Options"} |->
                  IF k = "Content-Type"
                  THEN Str(<< "t", "e", "x", "t", "/", "p", "l", "a", "i", "n", ";", " ",
                              "c", "h", "a", "r", "s", "e", "t", "=", "u", "t", "f", "-", "8" >>)
                  ELSE Str(<< "n", "o", "s", "n", "i", "f", "f" >>)],
    Body   |-> error \o << 10 >> ]

\* "only GET or POST method allowed"
onlyGetOrPost ==
  Str(<< "o", "n", "l", "y", " ", "G", "E", "T", " ", "o", "r", " ", "P", "O", "S", "T", " ",
         "m", "e", "t", "h", "o", "d", " ", "a", "l", "l", "o", "w", "e", "d" >>)

\* The requests that reach the handler: a GET has no body.
InboundRequests ==
  { Request(m, "proxy", path, hx,
            IF m = "GET" THEN NoBody ELSE StreamBody(Str(<< "a" >>), FALSE)) :
      m \in {"GET", "POST", "PUT"},
      path \in {scriptPath, eventsPath, "/", "/_templ/reload/events/"},
      hx \in {<< >>, strTrue} }

\* The branch, were the events path matched as a prefix.
Route_byPrefix(q) ==
  IF q.URL.Path = scriptPath THEN "script"
  ELSE IF q.URL.Path \in {eventsPath, "/_templ/reload/events/"}
  THEN CASE q.Method = "GET"  -> "stream"
         [] q.Method = "POST" -> "publish"
         [] OTHER             -> "notAllowed"
  ELSE "proxy"

\* The branch, were every method but GET to publish.
Route_anyMethodPublishes(q) ==
  IF q.URL.Path = scriptPath THEN "script"
  ELSE IF q.URL.Path = eventsPath
  THEN IF q.Method = "GET" THEN "stream" ELSE "publish"
  ELSE "proxy"

\* The branch ServeHTTP takes for q.
Route(q) ==
  IF q.URL.Path = scriptPath THEN "script"
  ELSE IF q.URL.Path = eventsPath
  THEN CASE q.Method = "GET"  -> "stream"
         [] q.Method = "POST" -> "publish"
         [] OTHER             -> "notAllowed"
  ELSE "proxy"

\* Handler.ServeHTTP, up to the call of the reverse proxy's transport: the
\* reverse proxy points the request at the target.
ServeHTTP ==
  /\ hpc = "idle"
  /\ \E q \in InboundRequests :
       LET route == Route(q)
       IN  /\ route = "publish" => Len(published) < MaxEvents
           /\ route = "stream" => streams < MaxStreams
           /\ in' = q
           /\ w' = CASE route = "script" ->
                          [Code |-> 200,
                           Header |-> [k \in {"Content-Type"} |->
                                         Str(<< "t", "e", "x", "t", "/", "j", "a", "v", "a",
                                                "s", "c", "r", "i", "p", "t" >>)],
                           Body |-> script]
                     [] route = "notAllowed" -> httpError(onlyGetOrPost, 405)
                     [] OTHER -> unwritten
           /\ published' = IF route = "publish"
                           THEN sseSend(published, "message", "reload")
                           ELSE published
           /\ streams' = IF route = "stream" THEN sseServeHTTP(streams) ELSE streams
           /\ hpc' = IF route = "proxy" THEN "proxy" ELSE "done"
           /\ rtpc' = IF route = "proxy" THEN "start" ELSE "idle"
           /\ r' = IF route = "proxy" THEN [q EXCEPT !.URL.Host = "target"] ELSE noRequest
  /\ bodyBytes' = nilBytes
  /\ retries' = 0
  /\ req' = noRequest
  /\ resp' = noResponse
  /\ err' = ""
  /\ attempts' = << >>
  /\ prevRead' = 0
  /\ slept' = << >>
  /\ origReads' = 0
  /\ mpc' = "idle"
  /\ upstream' = noResponse
  /\ res' = noResponse
  /\ mrErr' = ""
  /\ UNCHANGED calls

\* The reverse proxy after the transport has returned: an error is answered
\* with 502, a response goes to ModifyResponse.
ProxyRoundTripReturned ==
  /\ hpc = "proxy"
  /\ rtpc = "returned"
  /\ mpc = "idle"
  /\ IF err # ""
     THEN /\ w' = [unwritten EXCEPT !.Code = 502]
          /\ hpc' = "done"
          /\ UNCHANGED mrVars
     ELSE /\ upstream' = resp
          /\ res' = resp
          /\ mpc' = "modify"
          /\ UNCHANGED << mrErr, w, hpc >>
  /\ UNCHANGED << rtVars, in, published, streams, subs, calls >>

\* ServeHTTP returns: the exchange is over and its state is dropped.
ServeHTTPReturn ==
  /\ hpc = "done"
  /\ hpc' = "idle"
  /\ in' = noRequest
  /\ w' = unwritten
  /\ rtpc' = "idle"
  /\ r' = noRequest
  /\ bodyBytes' = nilBytes
  /\ retries' = 0
  /\ req' = noRequest
  /\ resp' = noResponse
  /\ err' = ""
  /\ attempts' = << >>
  /\ prevRead' = 0
  /\ slept' = << >>
  /\ origReads' = 0
  /\ mpc' = "idle"
  /\ upstream' = noResponse
  /\ res' = noResponse
  /\ mrErr' = ""
  /\ UNCHANGED << published, streams, calls >>

\* The reverse proxy after ModifyResponse has returned: an error is answered
\* with 502, otherwise the response is copied to the client.
ProxyCopyResponse ==
  /\ hpc = "proxy"
  /\ mpc = "done"
  /\ w' = IF mrErr # ""
          THEN [unwritten EXCEPT !.Code = 502]
          ELSE [Code |-> res.StatusCode, Header |-> res.Header, Body |-> Remaining(res.Body)]
  /\ hpc' = "done"
  /\ UNCHANGED << rtVars, mrVars, in, published, streams, subs, calls >>

\* SendSSE, were it to hand its two arguments over in the other order.
SendSSE_swapped ==
  /\ Len(published) < MaxEvents
  /\ \E e \in {<< "message", "reload" >>, << "status", "built" >>} :
       published' = sseSend(published, e[2], e[1])
  /\ UNCHANGED << rtVars, mrVars, hpc, in, w, streams, calls >>

\* Handler.SendSSE, called in-process.
SendSSE ==
  /\ Len(published) < MaxEvents
  /\ \E e \in {<< "message", "reload" >>, << "status", "built" >>} :
       published' = sseSend(published, e[1], e[2])
  /\ UNCHANGED << rtVars, mrVars, hpc, in, w, streams, calls >>

Init == rtIdle /\ mrIdle /\ hIdle

\* Here the broadcaster is followed by what it was given and how many
\* streams it was asked to serve; its subscribers are followed in SpecSSE.
Next ==
  \/ ServeHTTP /\ UNCHANGED subs
  \/ RoundTrip
  \/ ProxyRoundTripReturned
  \/ ModifyResponse
  \/ ProxyCopyResponse
  \/ ServeHTTPReturn /\ UNCHANGED subs
  \/ SendSSE /\ UNCHANGED subs

Spec == Init /\ [][Next]_vars

(***************************************************************************)
(* The broadcaster's subscribers.  A subscriber is the sink Subscribe       *)
(* registers for one stream: the events Publish has put in it that are yet  *)
(* to be written, and the frames ServeStream has written to its client.     *)
(* It also remembers how many events had been published when it joined.    *)
(***************************************************************************)

\* Subscribe, were the new subscriber handed the events published so far.
sseSubscribe_replay(s, id, events) ==
  [i \in DOMAIN s \cup {id} |->
     IF i = id THEN [joined |-> Len(events), sink |-> events, frames |-> << >>] ELSE s[i]]

\* Subscribe: the stream id has a sink of its own, empty, among the
\* subscribers s; events are the events published so far.
sseSubscribe(s, id, events) ==
  [i \in DOMAIN s \cup {id} |->
     IF i = id THEN [joined |-> Len(events), sink |-> << >>, frames |-> << >>] ELSE s[i]]

\* Publish, were an event to go only to the subscribers that have nothing
\* waiting.
ssePublish_dropWhenBusy(s, event) ==
  [i \in DOMAIN s |->
     IF s[i].sink = << >> THEN [s[i] EXCEPT !.sink = Append(@, event)] ELSE s[i]]

\* Publish: the event is put in the sink of every registered subscriber.
ssePublish(s, event) == [i \in DOMAIN s |-> [s[i] EXCEPT !.sink = Append(@, event)]]

\* ServeStream, one event: the oldest event in the sink of id is written to
\* its client as a frame.
sseWriteFrame(s, id) ==
  [s EXCEPT ![id] = [@ EXCEPT !.sink = Tail(@), !.frames = Append(@, s[id].sink[1])]]

\* The client of id has gone, or a write to it has failed: id is a
\* subscriber no more.
sseUnsubscribe(s, id) == [i \in DOMAIN s \ {id} |-> s[i]]

\* ServeHTTP for a request to a reserved path, with what the broadcaster
\* does for it.
SSEHandle ==
  /\ ServeHTTP
  /\ Route(in') # "proxy"
  /\ subs' = CASE Route(in') = "stream"  -> sseSubscribe(subs, streams', published)
               [] Route(in') = "publish" -> ssePublish(subs, published'[Len(published')])
               [] OTHER                  -> subs

SSEReturn == ServeHTTPReturn /\ UNCHANGED subs

\* SendSSE, with what the broadcaster does for it.
SSENotify ==
  /\ SendSSE
  /\ subs' = ssePublish(subs, published'[Len(published')])

\* The stream of id writes its next frame.
SSEWriteFrame(id) ==
  /\ id \in DOMAIN subs
  /\ subs[id].sink # << >>
  /\ subs' = sseWriteFrame(subs, id)
  /\ UNCHANGED << rtVars, mrVars, hVars, calls >>

\* The stream of id ends: its client disconnected, or a write to it failed.
SSEDisconnect(id) ==
  /\ id \in DOMAIN subs
  /\ subs' = sseUnsubscribe(subs, id)
  /\ UNCHANGED << rtVars, mrVars, hVars, calls >>

NextSSE ==
  \/ SSEHandle
  \/ SSEReturn
  \/ SSENotify
  \/ \E id \in 1..MaxStreams : SSEWriteFrame(id)
  \/ \E id \in 1..MaxStreams : SSEDisconnect(id)

SpecSSE == Init /\ [][NextSSE]_vars

\* Every stream that has a frame to write writes it in the end, however
\* slowly.
SpecSSEFair == SpecSSE /\ \A id \in 1..MaxStreams : WF_vars(SSEWriteFrame(id))

(***************************************************************************)
(* Properties of the transport, checked under SpecRT.                      *)
(***************************************************************************)

RECURSIVE Sum(_)
Sum(s) == IF Len(s) = 0 THEN 0 ELSE s[1] + Sum(Tail(s))

LastAnswered == Len(attempts) > 0 /\ attempts[Len(attempts)].answer # noResponse

AllFailed == \A i \in 1..Len(attempts) : attempts[i].answer = noResponse

\* C1: the attempts are numbered 0, 1, 2, ... in order; an attempt that is
\* answered with a response, whatever its status, is the last one; RoundTrip
\* has then returned that response (marked or not) and a nil error, after
\* as many sleeps as attempts failed.
C1_StopsAtFirstResponse ==
  /\ \A i \in 1..Len(attempts) : attempts[i].n = i - 1
  /\ \A i \in 1..(Len(attempts) - 1) : attempts[i].answer = noResponse
  /\ LastAnswered =>
       LET N      == Len(attempts)
           answer == attempts[N].answer
       IN  /\ rtpc = "returned"
           /\ N <= maxRetries
           /\ err = ""
           /\ resp \in { answer,
                         [answer EXCEPT !.Header = Set(answer.Header, "Templ-Skip-Modify", strTrue)] }
           /\ Len(slept) = N - 1

\* RoundTrip has returned the 502 the third attempt was answered with.
C1_Witness ==
  /\ rtpc = "returned"
  /\ Len(attempts) = 3
  /\ attempts[1].answer = noResponse
  /\ attempts[2].answer = noResponse
  /\ attempts[3].answer.StatusCode = 502
  /\ resp.StatusCode = 502
  /\ err = ""

\* C2: when every attempt has failed and RoundTrip has returned, it made
\* exactly maxRetries attempts and returned the "max retries" error with a
\* nil response; that error is returned in no other case; RoundTrip returns
\* either a response or an error, never both, and a response only when the
\* last attempt was answered with one.
C2_Exhaustion ==
  /\ Len(attempts) <= maxRetries
  /\ (rtpc = "returned" /\ Len(attempts) > 0 /\ AllFailed) =>
       /\ Len(attempts) = maxRetries
       /\ err = "max retries reached"
       /\ resp = noResponse
  /\ err = "max retries reached" =>
       /\ rtpc = "returned"
       /\ Len(attempts) = maxRetries
       /\ AllFailed
  /\ rtpc = "returned" => ((resp = noResponse) <=> (err # ""))
  /\ resp # noResponse => LastAnswered

\* Ten attempts have failed and RoundTrip has returned the "max retries" error.
C2_Witness ==
  /\ rtpc = "returned"
  /\ Len(attempts) = maxRetries
  /\ AllFailed
  /\ err = "max retries reached"
  /\ resp = noResponse

\* C3: the sleep after the failed attempt k is initialDelay * backoffExponent^k,
\* and when attempt N is answered the sleeps add up to at least the sum of
\* initialDelay * backoffExponent^i for i in 0..N-2.  (Both sides are
\* multiplied by a power of backoffDen to stay in the integers.)
C3_BackoffDelays ==
  /\ \A k \in 1..Len(slept) :
       slept[k] * Pow(backoffDen, k - 1) = initialDelay * Pow(backoffNum, k - 1)
  /\ (rtpc = "returned" /\ LastAnswered /\ Len(attempts) >= 2) =>
       LET N == Len(attempts)
       IN  Sum(slept) * Pow(backoffDen, N - 2)
             >= Sum([i \in 1..(N - 1) |->
                       initialDelay * Pow(backoffNum, i - 1) * Pow(backoffDen, N - 1 - i)])

\* C4: when the request carries a body, its stream is read once, before the
\* first attempt, and is left drained; every attempt is given a body, which
\* reads as the buffered bytes, the whole of the original body, from the
\* start, and the method, headers and URL of the original request.
C4_BodyReplay ==
  r.Body.kind = "stream" =>
    /\ origReads <= 1
    /\ rtpc # "start" => origReads = 1 /\ r.Body.pos = Len(r.Body.data)
    /\ \A i \in 1..Len(attempts) :
         /\ attempts[i].HasBody
         /\ attempts[i].Body = bodyBytes.data
         /\ attempts[i].Body = r.Body.data
         /\ attempts[i].Method = r.Method
         /\ attempts[i].Header = r.Header
         /\ attempts[i].URL = r.URL

\* The third attempt was given the whole two-byte body after the second one
\* had read one byte of its own copy and failed.
C4_Witness ==
  /\ r.Body.kind = "stream"
  /\ Len(r.Body.data) = 2
  /\ Len(attempts) = 3
  /\ prevRead = 1
  /\ attempts[3].Body = r.Body.data

(***************************************************************************)
(* Properties of the rewriter, checked under SpecMR.                       *)
(***************************************************************************)

IsHtml(resp_) == HasPrefix(Get(resp_.Header, "Content-Type"), strTextHtml)

IsGzip(resp_) == Get(resp_.Header, "Content-Encoding") = strGzip

\* modifyResponse has returned from a response it had to rewrite.
RewriteTried ==
  /\ mpc = "done"
  /\ IsHtml(upstream)
  /\ Get(upstream.Header, "Templ-Skip-Modify") # strTrue

\* The text a body carries: the body, decompressed if the response is gzip.
TextOf(resp_) ==
  IF IsGzip(resp_) THEN gzipReadAll(resp_.Body.data, FALSE).data ELSE resp_.Body.data

\* The positions of the closing tag in s.
Occurrences(s) ==
  {i \in 1..(Len(s) - Len(closeBody) + 1) : SubSeq(s, i, i + Len(closeBody) - 1) = closeBody}

\* C5: in a rewritten text/html response every byte of the original text is
\* kept, in order, the script markup stands right before each closing tag of
\* the original, once for each, and nothing else is added; the Content-Length
\* header and the length field are the byte length of the new body, which for
\* a body that is not compressed is the old length plus the length of the
\* script markup for each closing tag.
C5_ScriptInsertion ==
  (RewriteTried /\ mrErr = "") =>
    LET old   == TextOf(upstream)
        new   == TextOf(res)
        P     == Occurrences(old)
        L     == Len(scriptTag)
        at(m) == m + L * Cardinality({j \in P : j <= m})
    IN  /\ Len(new) = Len(old) + L * Cardinality(P)
        /\ \A m \in 1..Len(old) : new[at(m)] = old[m]
        /\ \A i \in P : SubSeq(new, at(i) - L, at(i) - 1) = scriptTag
        /\ Count(new, scriptTag) = Count(old, scriptTag) + Cardinality(P)
        /\ Count(new, closeBody) = Cardinality(P)
        /\ res.Body.pos = 0
        /\ Atoi(Get(res.Header, "Content-Length")) = Len(res.Body.data)
        /\ res.ContentLength = Len(res.Body.data)
        /\ ~IsGzip(upstream) =>
             Len(res.Body.data) = Len(upstream.Body.data) + L * Cardinality(P)

\* A plain text/html body of two adjacent closing tags has been rewritten.
C5_Witness ==
  /\ RewriteTried
  /\ mrErr = ""
  /\ ~IsGzip(upstream)
  /\ upstream.Body.data = Str(<< "<", "/", "b", "o", "d", "y", ">", "<", "/", "b", "o", "d", "y", ">" >>)
  /\ Count(res.Body.data, scriptTag) = 2

\* C7: a response whose Content-Type does not begin with text/html leaves
\* modifyResponse as it came, body, read position, headers and length, and
\* no error is returned.
C7_NonHtmlPassthrough ==
  (mpc = "done" /\ ~IsHtml(upstream)) => (res = upstream /\ mrErr = "")

\* A text/htm response with a closing tag in its body has passed unchanged.
C7_Witness ==
  /\ mpc = "done"
  /\ Get(upstream.Header, "Content-Type") = Str(<< "t", "e", "x", "t", "/", "h", "t", "m" >>)
  /\ "Templ-Skip-Modify" \notin DOMAIN upstream.Header
  /\ "Content-Encoding" \notin DOMAIN upstream.Header
  /\ upstream.Body.data = closeBody
  /\ res = upstream

\* C8: when the body of a text/html response with Content-Encoding gzip is
\* the compression of a text B, the rewritten body decompresses to what the
\* plain modifier makes of B, the Content-Encoding is still gzip, and the
\* Content-Length header and the length field are the compressed length.
C8_GzipRoundTrip ==
  LET B     == gzipReadAll(upstream.Body.data, FALSE).data
      plain == updatePlainResponse([upstream EXCEPT !.Body = NewReader(B)])
  IN  ( /\ RewriteTried
        /\ IsGzip(upstream)
        /\ ~upstream.Body.broken
        /\ upstream.Body.data = gzipCompress(B) )
      => /\ mrErr = ""
         /\ gzipNewReader(res.Body.data, FALSE).err = ""
         /\ gzipReadAll(res.Body.data, FALSE).err = ""
         /\ gzipReadAll(res.Body.data, FALSE).data = plain.r.Body.data
         /\ res.Body.pos = 0
         /\ IsGzip(res)
         /\ Atoi(Get(res.Header, "Content-Length")) = Len(res.Body.data)
         /\ res.ContentLength = Len(res.Body.data)

\* The compression of "</body>a</body>" has been rewritten.
C8_Witness ==
  /\ RewriteTried
  /\ IsGzip(upstream)
  /\ mrErr = ""
  /\ upstream.Body.data = gzipCompress(closeBody \o Str(<< "a" >>) \o closeBody)
  /\ Count(gzipReadAll(res.Body.data, FALSE).data, scriptTag) = 2

\* C10: when the gzip modifier fails, the response is as the upstream sent
\* it: body, read position, headers and length.
C10_FailureLeavesResponseUnmodified ==
  (RewriteTried /\ IsGzip(upstream) /\ mrErr # "") => res = upstream

\* C16: a rewrite that succeeds, plain or gzip, changes no header but
\* Content-Length: the status code, the Content-Type, the Content-Encoding
\* and every other header of the upstream's response are in the result with
\* the values they had, and no header but Content-Length is added.
C16_HeaderFrame ==
  (RewriteTried /\ mrErr = "") =>
    /\ res.StatusCode = upstream.StatusCode
    /\ DOMAIN res.Header = DOMAIN upstream.Header \cup {"Content-Length"}
    /\ \A k \in DOMAIN upstream.Header \ {"Content-Length"} :
         res.Header[k] = upstream.Header[k]
    /\ Get(res.Header, "Content-Type") = Get(upstream.Header, "Content-Type")
    /\ Get(res.Header, "Content-Encoding") = Get(upstream.Header, "Content-Encoding")

\* A gzip response with status 404 and a charset in its Content-Type has
\* been rewritten: its body and its Content-Length are new.
C16_Witness ==
  /\ RewriteTried
  /\ mrErr = ""
  /\ IsGzip(upstream)
  /\ upstream.StatusCode = 404
  /\ Get(upstream.Header, "Content-Type") # strTextHtml
  /\ res.Body.data # upstream.Body.data
  /\ Get(res.Header, "Content-Length") # Get(upstream.Header, "Content-Length")

(***************************************************************************)
(* Properties of the handler, checked under Spec.                          *)
(***************************************************************************)

\* C6: when a forwarded exchange's response has a Content-Type beginning
\* with text/html, the response carries the skip marker exactly when the
\* request carried HX-Request: true, and its body is left as it was exactly
\* then.  (Every text/html body of TransportResponses has a closing tag, so
\* a rewrite changes the body.)
C6_SkipExactlyForHxRequests ==
  (hpc = "proxy" /\ mpc = "done" /\ IsHtml(upstream)) =>
    /\ (Get(upstream.Header, "Templ-Skip-Modify") = strTrue)
         <=> (Get(in.Header, "Hx-Request") = strTrue)
    /\ (res.Body.data = upstream.Body.data)
         <=> (Get(in.Header, "Hx-Request") = strTrue)

\* C9: a request for the events path is never given to the transport; a
\* GET opens one stream and publishes nothing, a POST publishes the one
\* event message/reload, opens no stream and writes nothing, any other
\* method is answered 405 with a body, publishes nothing and opens no stream.
C9_EventsDispatch ==
  [][ (hpc = "idle" /\ hpc' # "idle" /\ in'.URL.Path = eventsPath) =>
        /\ hpc' = "done"
        /\ rtpc' = "idle"
        /\ attempts' = << >>
        /\ CASE in'.Method = "GET" ->
                  /\ published' = published
                  /\ streams' = streams + 1
             [] in'.Method = "POST" ->
                  /\ published' = Append(published, [type |-> "message", data |-> "reload"])
                  /\ streams' = streams
                  /\ w' = unwritten
             [] OTHER ->
                  /\ published' = published
                  /\ streams' = streams
                  /\ w'.Code = 405
                  /\ w'.Body = onlyGetOrPost \o << 10 >> ]_vars

\* A PUT to the events path has been answered 405 after a POST to it had
\* published the reload event.
C9_Witness ==
  /\ hpc = "done"
  /\ in.URL.Path = eventsPath
  /\ in.Method = "PUT"
  /\ w.Code = 405
  /\ published = << [type |-> "message", data |-> "reload"] >>
  /\ streams = 0

(***************************************************************************)
(* The failed read of the request body, checked under SpecRT.              *)
(***************************************************************************)

\* The request RoundTrip was called with has a body whose read fails.
BodyReadFails == r.Body.kind = "stream" /\ r.Body.broken

\* C18: when reading the body of the original request fails, RoundTrip
\* returns at once: its error is the error of the read (not "max retries
\* reached"), it returns no response, the underlying transport was never
\* called and RoundTrip never slept.
C18_ReadErrorShortCircuits ==
  (BodyReadFails /\ rtpc # "start") =>
    /\ rtpc = "returned"
    /\ err = "read error"
    /\ err # "max retries reached"
    /\ resp = noResponse
    /\ attempts = << >>
    /\ slept = << >>
    /\ retries = 0

\* RoundTrip has returned the error of the read of a two-byte body that
\* broke.
C18_Witness ==
  /\ rtpc = "returned"
  /\ BodyReadFails
  /\ Len(r.Body.data) = 2
  /\ err = "read error"
  /\ attempts = << >>

\* The text "text/javascript".
strTextJavascript ==
  Str(<< "t", "e", "x", "t", "/", "j", "a", "v", "a", "s", "c", "r", "i", "p", "t" >>)

\* A step of the exchange in hand: the handler, the transport or the
\* rewriter moves.
ExchangeStep ==
  hpc' # hpc \/ rtVars' # rtVars \/ mrVars' # mrVars \/ w' # w

\* C14: the handler decides by the exact path.  A request to the script path,
\* whatever its method, is answered 200 with Content-Type text/javascript and
\* the embedded script; a request to the events path is handled by its method
\* and is over when ServeHTTP returns; a request to any other path, the
\* events path with a trailing slash included, goes to the reverse proxy.
\* A request to a reserved path never reaches the transport, and the exchange
\* of a request to another path publishes no event and opens no stream.
C14_Routing ==
  [][ /\ (hpc = "idle" /\ hpc' # "idle") =>
           CASE in'.URL.Path = scriptPath ->
                  /\ hpc' = "done"
                  /\ w' = [Code   |-> 200,
                           Header |-> [k \in {"Content-Type"} |-> strTextJavascript],
                           Body   |-> script]
                  /\ rtpc' = "idle"
                  /\ published' = published
                  /\ streams' = streams
             [] in'.URL.Path = eventsPath ->
                  /\ hpc' = "done"
                  /\ rtpc' = "idle"
                  /\ (published' # published) => in'.Method = "POST"
                  /\ (streams' # streams) => in'.Method = "GET"
             [] OTHER ->
                  /\ hpc' = "proxy"
                  /\ rtpc' = "start"
                  /\ r' = [in' EXCEPT !.URL.Host = "target"]
                  /\ w' = unwritten
                  /\ published' = published
                  /\ streams' = streams
      /\ (hpc # "idle" /\ in.URL.Path \in {scriptPath, eventsPath}) =>
           /\ rtpc' = "idle"
           /\ mpc' = "idle"
           /\ attempts' = << >>
      /\ (hpc # "idle" /\ in.URL.Path \notin {scriptPath, eventsPath} /\ ExchangeStep) =>
           /\ published' = published
           /\ streams' = streams ]_vars

\* A POST to the script path has been answered with the script, with an
\* event published before it and nothing sent upstream.
C14_Witness ==
  /\ hpc = "done"
  /\ in.URL.Path = scriptPath
  /\ in.Method = "POST"
  /\ w.Code = 200
  /\ w.Body = script
  /\ attempts = << >>
  /\ Len(published) = 1

\* The event a POST to the events path publishes.
reloadEvent == [type |-> "message", data |-> "reload"]

\* The events the in-process calls of SendSSE ask for: SendSSE(t, d) for
\* ("message", "reload") and ("status", "built").
AskedEvents == { reloadEvent, [type |-> "status", data |-> "built"] }

\* C13: SendSSE(t, d) hands the broadcaster one event, of type t and data d,
\* and changes nothing else: not the exchange in hand, the transport, the
\* rewriter, the response written, or the streams.  A POST to the events path
\* hands the broadcaster the event ("message", "reload") and nothing else,
\* and wherever that POST can be handled SendSSE("message", "reload") makes
\* the same change to the broadcaster.
C13_SendSSEIsThePost ==
  /\ [][ (hpc' = hpc /\ published' # published) =>
           /\ \E e \in AskedEvents : published' = Append(published, e)
           /\ rtVars' = rtVars
           /\ mrVars' = mrVars
           /\ in' = in
           /\ w' = w
           /\ streams' = streams ]_vars
  /\ [][ (hpc = "idle" /\ hpc' # "idle" /\ in'.URL.Path = eventsPath /\ in'.Method = "POST") =>
           /\ published' = Append(published, reloadEvent)
           /\ streams' = streams
           /\ rtpc' = "idle"
           /\ mpc' = "idle" ]_vars
  /\ [](Len(published) < MaxEvents =>
          /\ \A e \in AskedEvents :
               ENABLED (SendSSE /\ UNCHANGED subs /\ published' = Append(published, e))
          /\ hpc = "idle" =>
               ENABLED (ServeHTTP /\ UNCHANGED subs /\ in'.Method = "POST"
                          /\ published' = Append(published, reloadEvent)))

\* During a forwarded exchange whose first attempt has failed, SendSSE has
\* published ("status", "built") after ("message", "reload").
C13_Witness ==
  /\ hpc = "proxy"
  /\ rtpc = "sleep"
  /\ Len(attempts) = 1
  /\ published = << reloadEvent, [type |-> "status", data |-> "built"] >>

(***************************************************************************)
(* Termination of RoundTrip, checked under SpecRTFair.                     *)
(***************************************************************************)

\* The attempts so far that failed.
Failed == {i \in 1..Len(attempts) : attempts[i].answer = noResponse}

\* The sum of initialDelay * backoffExponent^i for i in 0..n-1, multiplied by
\* backoffDen^(n-1) to stay in the integers.
SeriesScaled(n) ==
  Sum([i \in 1..n |-> initialDelay * Pow(backoffNum, i - 1) * Pow(backoffDen, n - i)])

\* C15: when every attempt of the underlying transport returns, RoundTrip
\* returns, after at most maxRetries attempts.  Every failed attempt is
\* followed by one sleep, the last one before "max retries reached"
\* included, and the sleeps add up to no more than the sum of
\* initialDelay * backoffExponent^i over the failed attempts.
C15_BoundedTermination ==
  /\ <>(rtpc = "returned")
  /\ [](/\ Len(attempts) <= maxRetries
        /\ Len(slept) <= Cardinality(Failed)
        /\ rtpc \in {"loop", "returned"} => Len(slept) = Cardinality(Failed)
        /\ err = "max retries reached" => Len(slept) = maxRetries
        /\ \A k \in 1..Len(slept) :
             slept[k] * Pow(backoffDen, k - 1) <= initialDelay * Pow(backoffNum, k - 1)
        /\ Cardinality(Failed) > 0 =>
             Sum(slept) * Pow(backoffDen, Cardinality(Failed) - 1)
               <= SeriesScaled(Cardinality(Failed)))

\* RoundTrip has given up after ten failed attempts and ten sleeps, 11
\* seconds in all.
C15_Witness ==
  /\ rtpc = "returned"
  /\ err = "max retries reached"
  /\ Cardinality(Failed) = maxRetries
  /\ Len(slept) = maxRetries
  /\ Sum(slept) = 11000

(***************************************************************************)
(* Properties of the broadcaster, checked under SpecSSEFair.               *)
(***************************************************************************)

\* The events published since n events had been.
EventsSince(n) == SubSeq(published, n + 1, Len(published))

\* The subscriber id has been sent every event published since it joined.
CaughtUp(id) == subs[id].frames = EventsSince(subs[id].joined)

\* C11: an event is delivered at most once and never replayed.  What a
\* subscriber has been sent and has yet to be sent is, in order and once each,
\* what was published after it joined: a subscriber that joins starts with
\* nothing, whatever was published before; its frames only grow, by the
\* oldest event waiting; an event published while nobody is subscribed
\* reaches nobody; and a subscriber that stays connected is sent, in the end,
\* every event published after it joined.
C11_AtMostOnceNoReplay ==
  /\ [](\A id \in DOMAIN subs :
          subs[id].frames \o subs[id].sink = EventsSince(subs[id].joined))
  /\ [][ \A id \in DOMAIN subs' :
           IF id \in DOMAIN subs
           THEN \/ subs'[id].frames = subs[id].frames
                \/ /\ subs[id].sink # << >>
                   /\ subs'[id].frames = Append(subs[id].frames, subs[id].sink[1])
           ELSE /\ subs'[id].frames = << >>
                /\ subs'[id].sink = << >>
                /\ subs'[id].joined = Len(published) ]_vars
  /\ [][ (DOMAIN subs = {} /\ published' # published) => DOMAIN subs' = {} ]_vars
  /\ \A id \in 1..MaxStreams :
       (id \in DOMAIN subs) ~> (id \notin DOMAIN subs \/ CaughtUp(id))

\* The first subscriber joined after one event and has been sent the second
\* only; the second subscriber joined after both and has been sent nothing.
C11_Witness ==
  /\ published = << [type |-> "message", data |-> "reload"],
                    [type |-> "status", data |-> "built"] >>
  /\ DOMAIN subs = {1, 2}
  /\ subs[1].joined = 1
  /\ subs[1].frames = << [type |-> "status", data |-> "built"] >>
  /\ subs[1].sink = << >>
  /\ subs[2].joined = 2
  /\ subs[2].frames = << >>
  /\ subs[2].sink = << >>

\* C12: the streams are served side by side.  A publication reaches the sink
\* of every subscriber in the same step, whatever waits in any of them, and
\* is never held back by a subscriber that is slow; a frame written to one
\* subscriber, and the end of one subscriber, leave the others and what was
\* published as they were; each subscriber is sent the events published
\* since it joined in the order of their publication; and in the end every
\* connected subscriber has been sent them all: nothing is stuck for ever.
C12_SlowSubscriberHoldsNobodyUp ==
  /\ [][ published' # published =>
           /\ DOMAIN subs' = DOMAIN subs
           /\ \A id \in DOMAIN subs :
                /\ subs'[id].sink = Append(subs[id].sink, published'[Len(published')])
                /\ subs'[id].frames = subs[id].frames ]_vars
  /\ [](Len(published) < MaxEvents => ENABLED SSENotify)
  /\ [][ \A id \in DOMAIN subs :
           (id \notin DOMAIN subs' \/ subs'[id].frames # subs[id].frames) =>
             /\ published' = published
             /\ \A other \in DOMAIN subs \ {id} :
                  other \in DOMAIN subs' /\ subs'[other] = subs[other] ]_vars
  /\ [](\A id \in DOMAIN subs :
          /\ Len(subs[id].frames) <= Len(EventsSince(subs[id].joined))
          /\ subs[id].frames
               = SubSeq(EventsSince(subs[id].joined), 1, Len(subs[id].frames)))
  /\ <>[](\A id \in DOMAIN subs : subs[id].sink = << >> /\ CaughtUp(id))

\* Two subscribers joined before anything was published; two events later
\* the first has been sent neither and the second has been sent both.
C12_Witness ==
  /\ Len(published) = 2
  /\ DOMAIN subs = {1, 2}
  /\ subs[1].joined = 0
  /\ subs[2].joined = 0
  /\ subs[1].frames = << >>
  /\ Len(subs[1].sink) = 2
  /\ subs[2].frames = published
  /\ subs[2].sink = << >>

(***************************************************************************)
(* Calls of RoundTrip side by side, checked under SpecRT2.                 *)
(***************************************************************************)

\* How many of the answers are errors of the underlying transport.
Failures(answers) == Cardinality({k \in 1..Len(answers) : answers[k] = noResponse})

\* The frame c is what the request of its call and the answers to its own
\* attempts make it.
OwnFrame(c) ==
  /\ Len(c.answers) <= maxRetries
  /\ \A k \in 1..(Len(c.answers) - 1) : c.answers[k] = noResponse
  /\ c.retries = Len(c.slept)
  /\ c.slept = [k \in 1..Len(c.slept) |-> sleepDelay(k - 1)]
  /\ Failures(c.answers) = Len(c.slept) + (IF c.pc = "sleep" THEN 1 ELSE 0)
  /\ c.bodyBytes = IF c.pc # "start" /\ c.r.Body.kind = "stream" /\ ~c.r.Body.broken
                   THEN [isNil |-> FALSE, data |-> c.r.Body.data]
                   ELSE nilBytes
  /\ c.resp = IF c.answers # << >> /\ c.answers[Len(c.answers)] # noResponse
              THEN setShouldSkipResponseModificationHeader(c.r, c.answers[Len(c.answers)])
              ELSE noResponse
  /\ c.err = CASE c.r.Body.kind = "stream" /\ c.r.Body.broken /\ c.pc # "start" -> "read error"
               [] c.pc = "returned" /\ c.resp = noResponse -> "max retries reached"
               [] c.pc \in {"sleep", "loop"} /\ c.answers # << >> -> "transport error"
               [] OTHER -> ""
  /\ c.pc = "returned" =>
       \/ c.err = "read error" /\ c.answers = << >>
       \/ c.resp # noResponse
       \/ Failures(c.answers) = maxRetries

\* C17: calls of RoundTrip that run side by side do not touch each other.  A
\* step changes the frame of one call and leaves every other frame as it
\* was; in every interleaving the counter, the buffered body, the sleeps, the
\* skip marker and the result of a call are what its own request and the
\* answers to its own attempts make them; and a call that has not returned
\* can take its next step whatever the others do, asleep or not.
C17_CallsIsolated ==
  /\ [][ \A i \in 1..MaxCalls :
           calls'[i] # calls[i] =>
             \A j \in (1..MaxCalls) \ {i} : calls'[j] = calls[j] ]_vars
  /\ [](\A i \in 1..MaxCalls : OwnFrame(calls[i]))
  /\ [](\A i \in 1..MaxCalls : calls[i].pc # "returned" => ENABLED CallStep(i))

\* The first call sleeps after its fourth failed attempt while the second,
\* an HX request with a body, has returned the marked answer to its first
\* attempt.
C17_Witness ==
  /\ calls[1].pc = "sleep"
  /\ calls[1].retries = 3
  /\ calls[1].slept = << 100, 100, 200 >>
  /\ calls[2].pc = "returned"
  /\ calls[2].retries = 0
  /\ calls[2].bodyBytes.data = << 97, 98 >>
  /\ calls[2].resp # noResponse
  /\ Get(calls[2].resp.Header, "Templ-Skip-Modify") = strTrue

====
